---- MODULE Spec2Model ----
(***************************************************************************)
(* State-machine model of the slide-deck controllers:                      *)
(*   - SlidePresenter (src/did-slides-2/assets/slides.js, the "unified"    *)
(*     deck, and src/assets/slides.js, the "split" deck),                  *)
(*   - InfoDialogManager (unified deck),                                   *)
(*   - LectureNotesModal and DetailButtons (split deck).                   *)
(* A behaviour is one page lifetime: Init is the state right after the     *)
(* DOMContentLoaded handler has constructed the controllers, and every     *)
(* action is one input event, one direct method call or one settlement of  *)
(* a promise, run to completion, listeners in dispatch order.              *)
(***************************************************************************)
EXTENDS Integers, Sequences, FiniteSets, TLC

VARIABLES
  page,     \* the markup the controllers read (never written by them)
  live,     \* the decks loaded in this run: a set of Variants
  unified,  \* unified deck: [p |-> SlidePresenter, d |-> the dialog overlay,
            \*   h |-> host document, listeners |-> the owners of the
            \*   listeners in the order added, leftOpen |-> the overlays a
            \*   later init() replaced while they were open]
  split     \* split deck: [p |-> SlidePresenter, n |-> notes overlays and
            \*   DetailButtons, h |-> host document, listeners |-> as above]

vars == <<page, live, unified, split>>

Variants == {"unified", "split"}

(***************************************************************************)
(* Bounds of the model.                                                    *)
(***************************************************************************)
MaxFragments == 2

\* The asynchronous requests a host document has outstanding at a time.
MaxPending == 2

\* The calls of init() made on a deck's controllers after the page has
\* loaded.
MaxInits == 1

(***************************************************************************)
(* Strings.  An attribute text is a sequence of characters, so that        *)
(* parseInt can scan it; a character is a one-character string, or, where  *)
(* it cannot be written in a string of this module, the name of its code   *)
(* point.  Undefined stands for an absent data attribute                   *)
(* (dataset.x === undefined).                                              *)
(***************************************************************************)
Undefined == <<"undefined">>

DigitChars == <<"0", "1", "2", "3", "4", "5", "6", "7", "8", "9">>

\* The hexadecimal digits after the decimal ones, by value 10..15.
HexLower == <<"a", "b", "c", "d", "e", "f">>

HexUpper == <<"A", "B", "C", "D", "E", "F">>

\* StrWhiteSpaceChar: the white space and the line terminators that
\* parseInt strips from the front of its argument.
WhiteSpace ==
  {" ", "\t", "\n", "\r", "\f",
   "U+000B", "U+00A0", "U+FEFF", "U+1680",
   "U+2000", "U+2001", "U+2002", "U+2003", "U+2004", "U+2005", "U+2006",
   "U+2007", "U+2008", "U+2009", "U+200A",
   "U+2028", "U+2029", "U+202F", "U+205F", "U+3000"}

IsDigit(c) == \E i \in 1..Len(DigitChars) : DigitChars[i] = c

DigitValue(c) == (CHOOSE i \in 1..Len(DigitChars) : DigitChars[i] = c) - 1

RECURSIVE SkipWhite(_)
SkipWhite(s) ==
  IF s # <<>> /\ Head(s) \in WhiteSpace THEN SkipWhite(Tail(s)) ELSE s

\* The longest prefix of decimal digits of s, as [any, val].
RECURSIVE ScanDigits(_, _, _)
ScanDigits(s, any, acc) ==
  IF s # <<>> /\ IsDigit(Head(s))
  THEN ScanDigits(Tail(s), TRUE, 10 * acc + DigitValue(Head(s)))
  ELSE [any |-> any, val |-> acc]

IsHexDigit(c) ==
  \/ IsDigit(c)
  \/ \E i \in 1..Len(HexLower) : HexLower[i] = c \/ HexUpper[i] = c

HexValue(c) ==
  IF IsDigit(c) THEN DigitValue(c)
  ELSE 9 + (CHOOSE i \in 1..Len(HexLower) : HexLower[i] = c \/ HexUpper[i] = c)

\* The longest prefix of hexadecimal digits of s, as [any, val].
RECURSIVE ScanHex(_, _, _)
ScanHex(s, any, acc) ==
  IF s # <<>> /\ IsHexDigit(Head(s))
  THEN ScanHex(Tail(s), TRUE, 16 * acc + HexValue(Head(s)))
  ELSE [any |-> any, val |-> acc]

\* The text starts with 0x or 0X.
HasHexPrefix(s) == Len(s) >= 2 /\ s[1] = "0" /\ s[2] \in {"x", "X"}

\* parseInt(text) with no radix: leading white space is skipped, one sign
\* is read, a 0x or 0X prefix makes the radix 16, then the longest prefix
\* of digits of the radix is read; no digit at all gives NaN.
\* parseInt(undefined) scans "undefined": NaN.
parseInt(text) ==
  IF text = Undefined THEN [nan |-> TRUE, val |-> 0]
  ELSE
    LET s0   == SkipWhite(text)
        neg  == s0 # <<>> /\ Head(s0) = "-"
        s1   == IF s0 # <<>> /\ Head(s0) \in {"-", "+"} THEN Tail(s0) ELSE s0
        scan == IF HasHexPrefix(s1)
                THEN ScanHex(Tail(Tail(s1)), FALSE, 0)
                ELSE ScanDigits(s1, FALSE, 0)
    IN  IF scan.any
        THEN [nan |-> FALSE, val |-> IF neg THEN 0 - scan.val ELSE scan.val]
        ELSE [nan |-> TRUE, val |-> 0]

\* parseInt(x) || 1 : NaN and 0 are falsy.
OrOne(n) == IF n.nan \/ n.val = 0 THEN 1 ELSE n.val

\* String(n) for an integer n.
RECURSIVE NatToString(_)
NatToString(n) ==
  IF n < 10 THEN DigitChars[n + 1]
  ELSE NatToString(n \div 10) \o DigitChars[(n % 10) + 1]

NumToString(n) == IF n < 0 THEN "-" \o NatToString(0 - n) ELSE NatToString(n)

\* str.padStart(2, '0')
PadStart2(str) == IF Len(str) < 2 THEN "0" \o str ELSE str

\* `slide-${paddedNum}.html`
SlideFile(slideNum) == "slide-" \o PadStart2(NumToString(slideNum)) \o ".html"

IndexFile == "index.html"

\* No assignment to window.location.href was made.
NoNav == "<none>"

\* An absent URL attribute (dataset.nextSlide === undefined).
Absent == "<absent>"

\* Truthiness of a URL attribute: absent and "" are falsy.
Truthy(url) == url # Absent /\ url # ""

(***************************************************************************)
(* SlidePresenter.  A presenter p is a record                              *)
(*   currentFragmentIndex, fragments (this.fragments.length), totalSlides, *)
(*   currentSlide : the object's fields;                                   *)
(*   visible : the positions (0-based, document order) of the fragments    *)
(*             that carry the class "visible";                             *)
(*   slideNumberText : the text of #slide-number ("" when there is none);  *)
(*   navigation : the value assigned to window.location.href by what ran   *)
(*             last, the handlers of an event or the reactions to a        *)
(*             settlement; NoNav when none was assigned.                   *)
(***************************************************************************)

\* updateNav()
updateNav(pg, p) ==
  IF pg.slideNumber
  THEN [p EXCEPT !.slideNumberText =
          NumToString(p.currentSlide) \o " / " \o NumToString(p.totalSlides)]
  ELSE p

\* init(), the part on the presenter's fields: the fragments collected,
\* the container's attributes read, the counter written.  The listeners
\* it adds are kept with the deck.
init(pg, p) ==
  LET collected == [p EXCEPT !.fragments = pg.numFragments]
      read ==
        IF pg.container
        THEN [collected EXCEPT
                !.totalSlides  = OrOne(parseInt(pg.totalSlides)),
                !.currentSlide = OrOne(parseInt(pg.currentSlide))]
        ELSE collected
  IN  updateNav(pg, read)

\* The constructor, which ends with init().
SlidePresenter(pg) ==
  init(pg, [currentFragmentIndex |-> -1,
            fragments            |-> 0,
            totalSlides          |-> 0,
            currentSlide         |-> 1,
            visible              |-> pg.initVisible,
            slideNumberText      |-> "",
            navigation           |-> NoNav])

\* window.location.href = url
Navigate(p, url) == [p EXCEPT !.navigation = url]

\* A goToSlide whose range starts at 0; C3 tells it from the code's.
goToSlideFromZero(p, slideNum) ==
  IF slideNum >= 0 /\ slideNum <= p.totalSlides
  THEN Navigate(p, SlideFile(slideNum))
  ELSE p

\* goToSlide(slideNum)
goToSlide(p, slideNum) ==
  IF slideNum >= 1 /\ slideNum <= p.totalSlides
  THEN Navigate(p, SlideFile(slideNum))
  ELSE p

\* goToIndex()
goToIndex(p) == Navigate(p, IndexFile)

\* A test that stops one fragment early; C1 tells it from the code's.
FragmentRemainsOffByOne(p) == p.currentFragmentIndex < p.fragments - 2

\* The test of next(): an unrevealed fragment remains.
FragmentRemains(p) == p.currentFragmentIndex < p.fragments - 1

\* A next() that never reads data-next; C5 tells it from the code's.
CustomNextIgnored(pg) == FALSE

\* The test of next() for a custom next link.
CustomNext(pg) == pg.container /\ Truthy(pg.nextSlide)

\* A next() that reveals every remaining fragment at once; C13 tells it
\* from the code's.
nextRevealsAll(pg, p) ==
  IF FragmentRemains(p)
  THEN updateNav(pg,
         [p EXCEPT !.currentFragmentIndex = p.fragments - 1,
                   !.visible = @ \cup (0..(p.fragments - 1))])
  ELSE IF CustomNext(pg)
       THEN Navigate(p, pg.nextSlide)
       ELSE updateNav(pg,
              IF p.currentSlide < p.totalSlides
              THEN goToSlide(p, p.currentSlide + 1)
              ELSE p)

\* next()
next(pg, p) ==
  IF FragmentRemains(p)
  THEN updateNav(pg,
         [p EXCEPT !.currentFragmentIndex = @ + 1,
                   !.visible = @ \cup {p.currentFragmentIndex + 1}])
  ELSE IF CustomNext(pg)
       THEN Navigate(p, pg.nextSlide)
       ELSE updateNav(pg,
              IF p.currentSlide < p.totalSlides
              THEN goToSlide(p, p.currentSlide + 1)
              ELSE p)

\* A prev() that hides the fragment before the index; C4 tells it from
\* the code's.
HideEarlier(p) ==
  [p EXCEPT !.visible = @ \ {p.currentFragmentIndex - 1},
            !.currentFragmentIndex = @ - 1]

\* A prev() that steps back without hiding anything; C15 tells it from
\* the code's.
HideNone(p) == [p EXCEPT !.currentFragmentIndex = @ - 1]

\* The first branch of prev(): hide the fragment at the index, then
\* decrement the index.
HideCurrent(p) ==
  [p EXCEPT !.visible = @ \ {p.currentFragmentIndex},
            !.currentFragmentIndex = @ - 1]

\* A prev() that hides the fragment and stays at its index; C16 tells it
\* from the code's.
prevKeepsIndex(pg, p) ==
  IF p.currentFragmentIndex >= 0
  THEN updateNav(pg, [p EXCEPT !.visible = @ \ {p.currentFragmentIndex}])
  ELSE IF pg.container /\ Truthy(pg.prevSlide)
       THEN Navigate(p, pg.prevSlide)
       ELSE updateNav(pg,
              IF p.currentSlide > 1
              THEN goToSlide(p, p.currentSlide - 1)
              ELSE p)

\* prev()
prev(pg, p) ==
  IF p.currentFragmentIndex >= 0
  THEN updateNav(pg, HideCurrent(p))
  ELSE IF pg.container /\ Truthy(pg.prevSlide)
       THEN Navigate(p, pg.prevSlide)
       ELSE updateNav(pg,
              IF p.currentSlide > 1
              THEN goToSlide(p, p.currentSlide - 1)
              ELSE p)

\* The switch of handleKeydown(e), as far as the presenter's own state
\* goes; HandleKey adds what the f key starts in the host document.
KeySwitch(pg, p, key) ==
  CASE key \in {"ArrowRight", " ", "Enter"} -> next(pg, p)
    [] key \in {"ArrowLeft", "Backspace"}   -> prev(pg, p)
    [] key = "Home"                          -> goToSlide(p, 1)
    [] key = "End"                           -> goToSlide(p, p.totalSlides)
    [] key = "Escape"                        -> goToIndex(p)
    [] OTHER                                 -> p

(***************************************************************************)
(* The page fixture: the trigger buttons and their targets.                *)
(* Unified deck: four .info-btn elements.  Each has a tag, a text and a    *)
(* data-dialog id; a target element has a data-title (Absent when it       *)
(* stores none) and inner HTML.                                            *)
(* Split deck: trigger 1 is the .lecture-notes-btn, triggers 2..4 are      *)
(* .detail-btn elements with a data-detail id.  The overlays are the two   *)
(* .notes-overlay elements "o1" (the first in document order, the one      *)
(* LectureNotesModal finds) and "o2", each with a .notes-close control.    *)
(***************************************************************************)
Triggers == 1..4

InfoBtn(t) ==
  CASE t = 1 -> [tag |-> "BUTTON", text |-> "i",    dialog |-> "d1"]
    [] t = 2 -> [tag |-> "SPAN",   text |-> "more", dialog |-> "d2"]
    [] t = 3 -> [tag |-> "SPAN",   text |-> "gone", dialog |-> "nowhere"]
    [] t = 4 -> [tag |-> "SPAN",   text |-> "why",  dialog |-> "d4"]

DialogTargets == {"d1", "d2", "d4"}

DialogTarget(id) ==
  CASE id = "d1" -> [title |-> "Setup", innerHTML |-> "<p>one</p>"]
    [] id = "d2" -> [title |-> Absent,  innerHTML |-> "<p>two</p>"]
    [] id = "d4" -> [title |-> "",      innerHTML |-> "<p>$$x$$</p>"]

Overlays == {"o1", "o2"}

NotesOverlay == "o1"

NoOverlay == "null"

DetailBtn(t) ==
  CASE t = 2 -> [tag |-> "BUTTON", detail |-> "o2"]
    [] t = 3 -> [tag |-> "BUTTON", detail |-> "nowhere"]
    [] t = 4 -> [tag |-> "BUTTON", detail |-> "o1"]

\* What a direct call infoDialogs.open(title, bodyHtml) is given: a title
\* and a body that no element of the page holds.
OpenArgs == {[title |-> "Note", bodyHtml |-> "<p>note</p>"]}

(***************************************************************************)
(* The host document h of a deck: what the controllers start in it and     *)
(* never wait for.  h is a record                                          *)
(*   mathJax : window.MathJax is there;                                    *)
(*   typesetPromise : MathJax.typesetPromise is a function, as it is once  *)
(*       MathJax 3 has started; it is not while window.MathJax is still    *)
(*       the page's configuration object, nor with MathJax 2;              *)
(*   fullscreenApi : the document has requestFullscreen / exitFullscreen;  *)
(*   fullscreenElement : document.fullscreenElement is set;                *)
(*   pending : for every job, how many promises of it are not settled yet; *)
(*   unhandled : the latest step settled a promise by a rejection no       *)
(*       handler took;                                                     *)
(*   threw : open() threw in the latest step, at its call of               *)
(*       MathJax.typesetPromise.                                           *)
(* A job is the HTML MathJax.typesetPromise was started on, or the name of *)
(* a fullscreen request.                                                   *)
(***************************************************************************)
TypesetJobs ==
  {DialogTarget(id).innerHTML : id \in DialogTargets}
    \cup {c.bodyHtml : c \in OpenArgs}

FullscreenJobs == {"requestFullscreen", "exitFullscreen"}

Jobs == TypesetJobs \cup FullscreenJobs

\* A document without MathJax and without the Fullscreen API.
BareHost ==
  [mathJax           |-> FALSE,
   typesetPromise    |-> FALSE,
   fullscreenApi     |-> FALSE,
   fullscreenElement |-> FALSE,
   pending           |-> [j \in Jobs |-> 0],
   unhandled         |-> FALSE,
   threw             |-> FALSE]

\* The promises of h that are not settled yet: a term for each job of Jobs.
SumPending(h) ==
  h.pending[DialogTarget("d1").innerHTML]
    + h.pending[DialogTarget("d2").innerHTML]
    + h.pending[DialogTarget("d4").innerHTML]
    + h.pending["<p>note</p>"]
    + h.pending["requestFullscreen"] + h.pending["exitFullscreen"]

\* The host has no more requests outstanding than are followed.
Within(h) == SumPending(h) <= MaxPending

\* A promise of job is created and left to settle later.
Start(h, job) == [h EXCEPT !.pending[job] = @ + 1]

\* toggleFullscreen().  Without the Fullscreen API the call of
\* requestFullscreen throws and nothing is started.
toggleFullscreen(h) ==
  IF ~h.fullscreenApi THEN h
  ELSE IF ~h.fullscreenElement
       THEN Start(h, "requestFullscreen")
       ELSE Start(h, "exitFullscreen")

\* The end of open(): if (window.MathJax) typesetPromise([body]).catch(...)
\* The test is of window.MathJax alone: where MathJax.typesetPromise is
\* not a function the call throws a TypeError and no promise is started.
Typeset(h, bodyHtml) ==
  IF ~h.mathJax THEN h
  ELSE IF h.typesetPromise THEN Start(h, bodyHtml)
  ELSE [h EXCEPT !.threw = TRUE]

\* What MathJax makes of the HTML of an element it typesets: TeX between
\* $$ becomes an <mjx-container>, HTML without TeX stays as it is, and so
\* does HTML that is typeset already.
Rendered(html) ==
  IF html = "<p>$$x$$</p>" THEN "<p><mjx-container>x</mjx-container></p>"
  ELSE html

\* The promise of job has a rejection handler: open() gives the typeset
\* promise .catch(() => {}), toggleFullscreen() drops the promise it gets.
Caught(job) == job \in TypesetJobs

\* The promise of job settles: fulfilled (ok) or rejected.
Settled(h, job, ok) ==
  [h EXCEPT
     !.pending[job]       = @ - 1,
     !.unhandled          = ~ok /\ ~Caught(job),
     !.fullscreenElement  =
        IF ok /\ job = "requestFullscreen" THEN TRUE
        ELSE IF ok /\ job = "exitFullscreen" THEN FALSE
        ELSE @]

(***************************************************************************)
(* Click targets.  A target is described by what the slide's click         *)
(* listener reads of it: its tag and whether it has an <a>, a <button> or  *)
(* a .home-btn among itself and its ancestors.                             *)
(***************************************************************************)
Plain(tag) ==
  [tagName |-> tag, closestA |-> (tag = "A"), closestButton |-> (tag = "BUTTON"),
   closestHome |-> FALSE]

SlideTargets == {"surface", "link", "button", "inLink", "inButton", "inHome"}

SlideTarget(k) ==
  CASE k = "surface"  -> Plain("DIV")
    [] k = "link"     -> Plain("A")
    [] k = "button"   -> Plain("BUTTON")
    [] k = "inLink"   -> [Plain("SPAN") EXCEPT !.closestA = TRUE]
    [] k = "inButton" -> [Plain("SPAN") EXCEPT !.closestButton = TRUE]
    [] k = "inHome"   -> [Plain("SPAN") EXCEPT !.closestHome = TRUE]

\* The test that makes the slide's click listener return at once.
IsControl(target) ==
  \/ target.tagName = "A"
  \/ target.tagName = "BUTTON"
  \/ target.closestA
  \/ target.closestButton
  \/ target.closestHome

\* The switch of handleKeydown(e) on a deck.
HandleKey(pg, deck, key) ==
  [deck EXCEPT !.p = KeySwitch(pg, deck.p, key),
               !.h = IF key = "f" THEN toggleFullscreen(deck.h) ELSE deck.h]

(***************************************************************************)
(* InfoDialogManager (unified deck).  The overlay d is a record            *)
(*   open : the overlay carries the class "open";                          *)
(*   title, body : the text of .dialog-title and the HTML of .dialog-body. *)
(***************************************************************************)
InfoDialogManager == [open |-> FALSE, title |-> "", body |-> ""]

\* isOpen()
DialogIsOpen(d) == d.open

\* open(title, bodyHtml), the part on the overlay.
DialogOpen(d, title, bodyHtml) ==
  [d EXCEPT !.title = title, !.body = bodyHtml, !.open = TRUE]

\* close()
DialogClose(d) == [d EXCEPT !.open = FALSE]

(***************************************************************************)
(* A unified deck u is a record                                            *)
(*   p : the presenter;  d : the overlay that is this.overlay;             *)
(*   h : the host document;                                                *)
(*   listeners : the owners of the keydown listeners on document, in the   *)
(*       order they were added, one by every run of an init();             *)
(*   leftOpen : how many overlays of earlier runs of                       *)
(*       InfoDialogManager.init(), which stay in the document, carry the   *)
(*       class "open".                                                     *)
(* A run of SlidePresenter.init() also adds a click listener to the        *)
(* .slide, a run of InfoDialogManager.init() one to every .info-btn: an    *)
(* element has as many of them as document has keydown listeners of that   *)
(* owner.  A listener yields [u |-> the deck after it, stop |-> it called  *)
(* stopPropagation].                                                       *)
(***************************************************************************)

\* The listeners of `owner` among ls.
Registered(ls, owner) == Cardinality({i \in 1..Len(ls) : ls[i] = owner})

\* InfoDialogManager.init(): this.overlay is a new element, closed and
\* empty, with its own click listeners; the overlay it replaces stays in
\* the document as it is.
DialogInit(u) ==
  [u EXCEPT !.d         = InfoDialogManager,
            !.leftOpen  = IF u.d.open THEN @ + 1 ELSE @,
            !.listeners = Append(@, "dialog")]

\* open(title, bodyHtml)
InfoDialogOpen(u, title, bodyHtml) ==
  [u EXCEPT !.d = DialogOpen(u.d, title, bodyHtml),
            !.h = Typeset(u.h, bodyHtml)]

\* A title taken from the target alone, without the button's text; C8
\* tells it from the code's.
DialogTitleNoFallback(t) ==
  IF DialogTarget(InfoBtn(t).dialog).title = Absent THEN ""
  ELSE DialogTarget(InfoBtn(t).dialog).title

\* The title open() is called with: target.dataset.title || btn.textContent
DialogTitle(t) ==
  IF Truthy(DialogTarget(InfoBtn(t).dialog).title)
  THEN DialogTarget(InfoBtn(t).dialog).title
  ELSE InfoBtn(t).text

\* An .info-btn listener without stopPropagation; C17 tells it from the
\* code's.
InfoBtnListenerNoStop(u, t) ==
  LET id == InfoBtn(t).dialog
  IN  [u    |-> IF id \in DialogTargets
                THEN InfoDialogOpen(u, DialogTitle(t),
                                    DialogTarget(id).innerHTML)
                ELSE u,
       stop |-> FALSE]

\* The .info-btn click listener of trigger t.
InfoBtnListener(u, t) ==
  LET id == InfoBtn(t).dialog
  IN  [u    |-> IF id \in DialogTargets
                THEN InfoDialogOpen(u, DialogTitle(t),
                                    DialogTarget(id).innerHTML)
                ELSE u,
       stop |-> TRUE]

\* The n click listeners on the .info-btn of trigger t, one after the
\* other: stopPropagation keeps none of them from running.
RECURSIVE InfoBtnListeners(_, _, _)
InfoBtnListeners(n, u, t) ==
  IF n = 0 THEN [u |-> u, stop |-> FALSE]
  ELSE LET before == InfoBtnListeners(n - 1, u, t)
           last   == InfoBtnListener(before.u, t)
       IN  [u |-> last.u, stop |-> before.stop \/ last.stop]

\* An overlay listener without stopPropagation; C6 tells it from the
\* code's.
OverlayListenerNoStop(u, onOverlay) ==
  [u    |-> IF onOverlay THEN [u EXCEPT !.d = DialogClose(u.d)] ELSE u,
   stop |-> FALSE]

\* The overlay's click listener; onOverlay: e.target === this.overlay.
OverlayListener(u, onOverlay) ==
  [u    |-> IF onOverlay THEN [u EXCEPT !.d = DialogClose(u.d)] ELSE u,
   stop |-> TRUE]

\* The .close-btn click listener.
CloseBtnListener(u) ==
  [u |-> [u EXCEPT !.d = DialogClose(u.d)], stop |-> TRUE]

\* The slide's click listener of the unified deck.
SlideListenerUnified(pg, u, target) ==
  IF IsControl(target) THEN u
  ELSE IF DialogIsOpen(u.d) THEN u
  ELSE [u EXCEPT !.p = next(pg, u.p)]

\* The n click listeners on the .slide, one after the other.
RECURSIVE SlideListenersUnified(_, _, _, _)
SlideListenersUnified(n, pg, u, target) ==
  IF n = 0 THEN u
  ELSE SlideListenersUnified(n - 1, pg,
                             SlideListenerUnified(pg, u, target), target)

\* The click reaches the slide's listeners when there is a .slide, the
\* target lies inside it and no listener on the way stopped the event.
ToSlideUnified(pg, r, inSlide, target) ==
  IF pg.slide /\ inSlide /\ ~r.stop
  THEN SlideListenersUnified(Registered(r.u.listeners, "presenter"),
                             pg, r.u, target)
  ELSE r.u

\* handleKeydown(e), the presenter's keydown listener on document.
PresenterKeyListener(pg, u, key) ==
  IF DialogIsOpen(u.d) THEN u ELSE HandleKey(pg, u, key)

\* The dialog's keydown listener on document.  Its stopPropagation does
\* not keep the event from another listener on document.
DialogKeyListener(u, key) ==
  IF key = "Escape" /\ u.d.open
  THEN [u EXCEPT !.d = DialogClose(u.d)]
  ELSE u

\* The keydown listeners on document after the DOMContentLoaded handler,
\* which constructs the presenter first.
RegistrationOrder == <<"presenter", "dialog">>

\* A keydown event with the listeners of the owners ls run in that order.
RECURSIVE KeydownInOrder(_, _, _, _)
KeydownInOrder(ls, pg, u, key) ==
  IF ls = <<>> THEN u
  ELSE KeydownInOrder(Tail(ls), pg,
                      IF Head(ls) = "presenter"
                      THEN PresenterKeyListener(pg, u, key)
                      ELSE DialogKeyListener(u, key),
                      key)

\* The keydown event of a deck whose listeners run last added first; C12
\* tells it from the code's.
KeydownUnifiedDialogFirst(pg, u, key) ==
  KeydownInOrder([i \in 1..Len(u.listeners) |->
                    u.listeners[Len(u.listeners) + 1 - i]], pg, u, key)

\* The keydown listeners on document, in the order they were added: a
\* presenter's is gated by the dialog, a dialog's closes on Escape.
KeydownUnified(pg, u, key) == KeydownInOrder(u.listeners, pg, u, key)

(***************************************************************************)
(* LectureNotesModal and DetailButtons (split deck).  The notes state n    *)
(* is a record                                                             *)
(*   open : the .notes-overlay elements that carry the class "open";       *)
(*   activeOverlay : DetailButtons.activeOverlay (NoOverlay for null).     *)
(***************************************************************************)
NotesInit == [open |-> {}, activeOverlay |-> NoOverlay]

\* LectureNotesModal.isOpen()
LectureNotesIsOpen(n) == NotesOverlay \in n.open

\* LectureNotesModal.open()
LectureNotesOpen(n) == [n EXCEPT !.open = @ \cup {NotesOverlay}]

\* LectureNotesModal.close()
LectureNotesClose(n) == [n EXCEPT !.open = @ \ {NotesOverlay}]

\* DetailButtons.open(overlay)
DetailOpen(n, overlay) ==
  [n EXCEPT !.activeOverlay = overlay, !.open = @ \cup {overlay}]

\* DetailButtons.close()
DetailClose(n) ==
  IF n.activeOverlay # NoOverlay
  THEN [n EXCEPT !.open = @ \ {n.activeOverlay}, !.activeOverlay = NoOverlay]
  ELSE n

(***************************************************************************)
(* A split deck s is [p |-> presenter, n |-> notes state, h |-> host,      *)
(* listeners |-> the owners of the bubble-phase keydown listeners on       *)
(* document]: the presenter's, one by every run of its init().             *)
(***************************************************************************)

\* The click listener of trigger t: the .lecture-notes-btn's, or a
\* .detail-btn's.  Neither stops the event.
TriggerListenerSplit(s, t) ==
  [s    |-> IF t = 1
            THEN [s EXCEPT !.n = LectureNotesOpen(s.n)]
            ELSE IF DetailBtn(t).detail \in Overlays
                 THEN [s EXCEPT !.n = DetailOpen(s.n, DetailBtn(t).detail)]
                 ELSE s,
   stop |-> FALSE]

\* The click listeners on the .notes-close control of overlay o:
\* LectureNotesModal's (on the first overlay only), then DetailButtons'.
NotesCloseListeners(s, o) ==
  LET s1 == IF o = NotesOverlay
            THEN [s EXCEPT !.n = LectureNotesClose(s.n)]
            ELSE s
  IN  [s |-> [s1 EXCEPT !.n = DetailClose(s1.n)], stop |-> FALSE]

\* The click listeners on overlay o itself: LectureNotesModal's (on the
\* first overlay only), then DetailButtons'.  Both stop the event.
NotesOverlayListeners(s, o, onOverlay) ==
  LET s1 == IF o = NotesOverlay /\ onOverlay
            THEN [s EXCEPT !.n = LectureNotesClose(s.n)]
            ELSE s
  IN  [s    |-> IF onOverlay THEN [s1 EXCEPT !.n = DetailClose(s1.n)] ELSE s1,
       stop |-> TRUE]

\* The slide's click listener of the split deck.
SlideListenerSplit(pg, s, target) ==
  IF IsControl(target) THEN s
  ELSE [s EXCEPT !.p = next(pg, s.p)]

\* The n click listeners on the .slide, one after the other.
RECURSIVE SlideListenersSplit(_, _, _, _)
SlideListenersSplit(n, pg, s, target) ==
  IF n = 0 THEN s
  ELSE SlideListenersSplit(n - 1, pg,
                           SlideListenerSplit(pg, s, target), target)

ToSlideSplit(pg, r, inSlide, target) ==
  IF pg.slide /\ inSlide /\ ~r.stop
  THEN SlideListenersSplit(Registered(r.s.listeners, "presenter"),
                           pg, r.s, target)
  ELSE r.s

\* The n keydown listeners of the presenter, one after the other.
RECURSIVE PresenterKeyListenersSplit(_, _, _, _)
PresenterKeyListenersSplit(n, pg, s, key) ==
  IF n = 0 THEN s
  ELSE PresenterKeyListenersSplit(n - 1, pg, HandleKey(pg, s, key), key)

\* The keydown listeners on document: the two capture-phase Escape
\* listeners (LectureNotesModal's, then DetailButtons'), each ending the
\* dispatch with stopImmediatePropagation, then the presenter's.
KeydownSplit(pg, s, key) ==
  IF key = "Escape" /\ LectureNotesIsOpen(s.n)
  THEN [s EXCEPT !.n = LectureNotesClose(s.n)]
  ELSE IF key = "Escape" /\ s.n.activeOverlay # NoOverlay
       THEN [s EXCEPT !.n = DetailClose(s.n)]
       ELSE PresenterKeyListenersSplit(Registered(s.listeners, "presenter"),
                                       pg, s, key)

(***************************************************************************)
(* Whole events, per deck.                                                 *)
(***************************************************************************)
OverlayParts == {"overlay", "content", "close"}

\* A click on the unified overlay: on the overlay itself, inside the
\* dialog content, or on the close control.
OverlayClickUnified(pg, u, part) ==
  LET atClose == IF part = "close" THEN CloseBtnListener(u)
                 ELSE [u |-> u, stop |-> FALSE]
      atOverlay == IF atClose.stop THEN atClose
                   ELSE OverlayListener(atClose.u, part = "overlay")
  IN  ToSlideUnified(pg, atOverlay, pg.overlayInSlide,
                     Plain(IF part = "close" THEN "BUTTON" ELSE "DIV"))

\* A click on overlay o of the split deck.
OverlayClickSplit(pg, s, o, part) ==
  LET atClose == IF part = "close" THEN NotesCloseListeners(s, o)
                 ELSE [s |-> s, stop |-> FALSE]
      atOverlay == IF atClose.stop THEN atClose
                   ELSE NotesOverlayListeners(atClose.s, o, part = "overlay")
  IN  ToSlideSplit(pg, atOverlay, pg.overlayInSlide,
                   Plain(IF part = "close" THEN "BUTTON" ELSE "DIV"))

\* A click on an overlay that an earlier run of InfoDialogManager.init()
\* left in the document.  Its listeners stop the event; its close control
\* closes this.overlay, and the overlay itself is not this.overlay.
LeftOverlayClickUnified(u, part) ==
  IF part = "close" THEN CloseBtnListener(u).u ELSE u

\* A click on trigger t (the triggers lie inside the slide).
TriggerClickUnified(pg, u, t) ==
  ToSlideUnified(pg,
                 InfoBtnListeners(Registered(u.listeners, "dialog"), u, t),
                 TRUE, Plain(InfoBtn(t).tag))

TriggerClickSplit(pg, s, t) ==
  ToSlideSplit(pg, TriggerListenerSplit(s, t), TRUE,
               Plain(IF t = 1 THEN "BUTTON" ELSE DetailBtn(t).tag))

\* A click on a target of kind k inside the slide.
SlideClickUnified(pg, u, k) ==
  ToSlideUnified(pg, [u |-> u, stop |-> FALSE], TRUE, SlideTarget(k))

SlideClickSplit(pg, s, k) ==
  ToSlideSplit(pg, [s |-> s, stop |-> FALSE], TRUE, SlideTarget(k))

(***************************************************************************)
(* Pages.                                                                  *)
(***************************************************************************)
\* Texts of data-total-slides and data-current-slide that pages carry
\* (Undefined: the attribute is absent).
TotalTexts == {Undefined, <<"3">>, <<"1", "1">>}

CurrentTexts == {Undefined, <<"x">>, <<"2">>, <<"1", "0">>}

\* Values of data-next-slide and data-prev-slide.
NextTexts == {Absent, "", "appendix.html", IndexFile}

PrevTexts == {Absent, "", "cover.html", IndexFile}

\* A page: which elements exist and what their attributes say.
\*   container : there is a .slide-container;
\*   numFragments, initVisible : the .fragment elements and those that
\*     carry the class "visible" in the markup;
\*   slide : there is a .slide;  slideNumber : there is a #slide-number;
\*   overlayInSlide : the overlay elements lie inside the .slide.
Pages ==
  { [container      |-> c,
     totalSlides    |-> ts,
     currentSlide   |-> cs,
     nextSlide      |-> nx,
     prevSlide      |-> pv,
     numFragments   |-> f,
     initVisible    |-> iv,
     slide          |-> sl,
     slideNumber    |-> sl,
     overlayInSlide |-> ois] :
       c \in BOOLEAN, ts \in TotalTexts, cs \in CurrentTexts,
       nx \in NextTexts, pv \in PrevTexts,
       f \in 0..MaxFragments, iv \in SUBSET (0..(MaxFragments - 1)),
       sl \in BOOLEAN, ois \in BOOLEAN }

\* A page without a .slide-container has none of its data attributes, at
\* most one of its fragments is marked visible in the markup, and an
\* overlay can only lie inside a .slide that exists.  The pages that carry
\* a data-next-slide or data-prev-slide are pages of a three-slide deck:
\* its second slide, and one numbered past its end; a page that names the
\* index page as one target, or gives an empty data-prev-slide, has no
\* other target.  Those pages,
\* and the pages whose container gives other numbers than that second
\* slide's, have a .slide with the overlays outside it and at most one
\* fragment, hidden in the markup, as have the pages without a container;
\* the pages with a fragment visible in the markup have a .slide with the
\* overlays outside it.
WellFormed(pg) ==
  /\ pg.initVisible \subseteq 0..(pg.numFragments - 1)
  /\ Cardinality(pg.initVisible) <= 1
  /\ (pg.nextSlide # Absent \/ pg.prevSlide # Absent) =>
        /\ pg.totalSlides = <<"3">>
        /\ pg.currentSlide \in {<<"2">>, <<"1", "0">>}
  /\ pg.nextSlide = IndexFile => pg.prevSlide = Absent
  /\ pg.prevSlide \in {"", IndexFile} => pg.nextSlide = Absent
  /\ ~pg.container =>
        /\ pg.totalSlides = Undefined /\ pg.currentSlide = Undefined
        /\ pg.nextSlide = Absent /\ pg.prevSlide = Absent
  /\ ~pg.slide => ~pg.overlayInSlide
  /\ (\/ pg.nextSlide # Absent \/ pg.prevSlide # Absent
      \/ (pg.container /\ pg.totalSlides # <<"3">>)
      \/ (pg.container /\ pg.currentSlide # <<"2">>))
        => (pg.slide /\ ~pg.overlayInSlide)
  /\ (\/ pg.nextSlide # Absent \/ pg.prevSlide # Absent
      \/ pg.totalSlides # <<"3">> \/ pg.currentSlide # <<"2">>)
        => (pg.numFragments <= 1 /\ pg.initVisible = {})
  /\ pg.initVisible # {} => (pg.slide /\ ~pg.overlayInSlide)

Keys == {"ArrowRight", " ", "Enter", "ArrowLeft", "Backspace",
         "Home", "End", "Escape", "f", "a"}

\* Arguments of direct goToSlide calls.
SlideArgs == {0, 1, 3, 4, 11, 12}

\* The pages on which the two decks are run side by side.
PairPage(pg) ==
  /\ pg.container
  /\ pg.totalSlides = <<"3">> /\ pg.currentSlide = <<"2">>
  /\ pg.nextSlide = Absent /\ pg.prevSlide = Absent
  /\ pg.initVisible = {}
  /\ pg.numFragments <= 1

\* The pages that are also loaded in documents with MathJax or with the
\* Fullscreen API.
HostPage(pg) ==
  /\ PairPage(pg)
  /\ pg.numFragments = 0
  /\ pg.slide /\ ~pg.overlayInSlide

\* A document with MathJax started and with the Fullscreen API.
BrowserHost ==
  [BareHost EXCEPT !.mathJax = TRUE, !.typesetPromise = TRUE,
                   !.fullscreenApi = TRUE]

\* A document whose window.MathJax has no typesetPromise.
LoadingHost == [BareHost EXCEPT !.mathJax = TRUE]

\* The host documents a page is loaded in, one deck at a time or side by
\* side.  Only the unified deck reads window.MathJax.
Hosts(pg, decks) ==
  {BareHost}
    \cup (IF HostPage(pg) /\ decks # Variants THEN {BrowserHost} ELSE {})
    \cup (IF HostPage(pg) /\ decks = {"unified"} THEN {LoadingHost} ELSE {})

(***************************************************************************)
(* The state machine.  Init is the page after its DOMContentLoaded handler *)
(* has run: each controller constructed once, init() run by its            *)
(* constructor, every listener registered once.  The actions are the       *)
(* events the listeners receive, the calls of the controllers' methods,    *)
(* init() among them, and the settlements of the promises these start.     *)
(***************************************************************************)
Init ==
  /\ page \in {pg \in Pages : WellFormed(pg)}
  /\ live \in {{"unified"}, {"split"}} \cup (IF PairPage(page) THEN {Variants} ELSE {})
  /\ \E h \in Hosts(page, live) :
        /\ unified = [p |-> SlidePresenter(page), d |-> InfoDialogManager,
                      h |-> h, listeners |-> RegistrationOrder,
                      leftOpen |-> 0]
        /\ split = [p |-> SlidePresenter(page), n |-> NotesInit, h |-> h,
                    listeners |-> <<"presenter">>]

\* The deck of variant v.
DeckOf(v) == IF v = "unified" THEN unified ELSE split

\* The deck as a new event finds it: nothing assigned to location yet,
\* no rejection left unhandled, nothing thrown.
Fresh(deck) ==
  [deck EXCEPT !.p.navigation = NoNav,
               !.h.unhandled  = FALSE,
               !.h.threw      = FALSE]

\* The event changes the decks that are loaded.  An event that would
\* leave a host with more outstanding requests than are followed is not
\* taken.
Deliver(u, s) ==
  /\ unified' = IF "unified" \in live THEN u ELSE unified
  /\ split' = IF "split" \in live THEN s ELSE split
  /\ UNCHANGED <<page, live>>
  /\ "unified" \in live => Within(u.h)
  /\ "split" \in live => Within(s.h)

\* A keydown event on the document.
Keydown(key) ==
  Deliver(KeydownUnified(page, Fresh(unified), key),
          KeydownSplit(page, Fresh(split), key))

\* A click on a target of kind k inside the slide.
ClickSlide(k) ==
  /\ page.slide
  /\ Deliver(SlideClickUnified(page, Fresh(unified), k),
             SlideClickSplit(page, Fresh(split), k))

\* A click on trigger t.
ClickTrigger(t) ==
  Deliver(TriggerClickUnified(page, Fresh(unified), t),
          TriggerClickSplit(page, Fresh(split), t))

\* A click on part `part` of an overlay: of the unified deck's overlay,
\* and of overlay o of the split deck.
ClickOverlayOn(o, part) ==
  Deliver(OverlayClickUnified(page, Fresh(unified), part),
          OverlayClickSplit(page, Fresh(split), o, part))

\* Side by side, the click lands on an overlay of the split deck that is
\* shown, as the unified deck's is, when one is shown.
ClickOverlay(part) ==
  \E o \in (IF live = Variants /\ split.n.open # {}
             THEN split.n.open ELSE Overlays) :
    ClickOverlayOn(o, part)

\* Direct calls of the presenter's methods.
CallNext ==
  Deliver([Fresh(unified) EXCEPT !.p = next(page, @)],
          [Fresh(split) EXCEPT !.p = next(page, @)])

CallPrev ==
  Deliver([Fresh(unified) EXCEPT !.p = prev(page, @)],
          [Fresh(split) EXCEPT !.p = prev(page, @)])

CallGoToSlide(slideNum) ==
  Deliver([Fresh(unified) EXCEPT !.p = goToSlide(@, slideNum)],
          [Fresh(split) EXCEPT !.p = goToSlide(@, slideNum)])

CallGoToIndex ==
  Deliver([Fresh(unified) EXCEPT !.p = goToIndex(@)],
          [Fresh(split) EXCEPT !.p = goToIndex(@)])

CallToggleFullscreen ==
  Deliver([Fresh(unified) EXCEPT !.h = toggleFullscreen(@)],
          [Fresh(split) EXCEPT !.h = toggleFullscreen(@)])

\* Direct calls of the dialog controllers' methods: infoDialogs.open and
\* infoDialogs.close in the unified deck, lectureNotes.open and
\* lectureNotes.close in the split deck.
CallOpen(c) ==
  Deliver(InfoDialogOpen(Fresh(unified), c.title, c.bodyHtml),
          [Fresh(split) EXCEPT !.n = LectureNotesOpen(@)])

CallClose ==
  Deliver([Fresh(unified) EXCEPT !.d = DialogClose(@)],
          [Fresh(split) EXCEPT !.n = LectureNotesClose(@)])

\* A click on a part of an overlay that an earlier run of
\* InfoDialogManager.init() left in the document.
ClickLeftOverlay(part) ==
  /\ live = {"unified"}
  /\ Registered(unified.listeners, "dialog") > 1
  /\ Deliver(LeftOverlayClickUnified(Fresh(unified), part), Fresh(split))

\* The init() calls made on deck v after the page has loaded.
Inits(v) ==
  IF v = "unified" THEN Len(unified.listeners) - Len(RegistrationOrder)
  ELSE Len(split.listeners) - 1

\* slidePresenter.init() called once more.
CallInit ==
  /\ \A v \in live : Inits(v) < MaxInits
  /\ Deliver([Fresh(unified) EXCEPT !.p = init(page, @),
                                    !.listeners = Append(@, "presenter")],
             [Fresh(split) EXCEPT !.p = init(page, @),
                                  !.listeners = Append(@, "presenter")])

\* infoDialogs.init() called once more; the split deck's controllers have
\* no init().
CallDialogInit ==
  /\ live = {"unified"}
  /\ Inits("unified") < MaxInits
  /\ Deliver(DialogInit(Fresh(unified)), Fresh(split))

\* A pending promise of job settles in the host of a loaded deck,
\* fulfilled (ok) or rejected: the reactions registered on it run, and no
\* listener of the controllers; they assign nothing to the location.
\* Before its promise settles, MathJax.typesetPromise([body]) typesets the
\* element it was given, whatever HTML that holds by then; typeset tells
\* whether it came to rewrite the .dialog-body of this.overlay.  It did
\* when the promise is fulfilled, unless a later InfoDialogManager.init()
\* has made another element this.overlay; a rejected promise may have
\* failed before or after.
SettleJob(job, ok, typeset) ==
  /\ \E v \in live : DeckOf(v).h.pending[job] > 0
  /\ typeset => job \in TypesetJobs
  /\ (job \in TypesetJobs /\ ok /\ Registered(unified.listeners, "dialog") = 1)
       => typeset
  /\ unified' = IF "unified" \in live /\ unified.h.pending[job] > 0
                THEN [Fresh(unified) EXCEPT
                        !.h      = Settled(@, job, ok),
                        !.d.body = IF typeset THEN Rendered(@) ELSE @]
                ELSE unified
  /\ split' = IF "split" \in live /\ split.h.pending[job] > 0
              THEN [Fresh(split) EXCEPT !.h = Settled(@, job, ok)]
              ELSE split
  /\ UNCHANGED <<page, live>>

Next ==
  \/ \E key \in Keys : Keydown(key)
  \/ \E k \in SlideTargets : ClickSlide(k)
  \/ \E t \in Triggers : ClickTrigger(t)
  \/ \E part \in OverlayParts : ClickOverlay(part)
  \/ CallNext
  \/ CallPrev
  \/ \E slideNum \in SlideArgs : CallGoToSlide(slideNum)
  \/ CallGoToIndex
  \/ CallToggleFullscreen
  \/ \E c \in OpenArgs : CallOpen(c)
  \/ CallClose
  \/ CallInit
  \/ CallDialogInit
  \/ \E part \in OverlayParts : ClickLeftOverlay(part)
  \/ \E job \in Jobs, ok \in BOOLEAN, typeset \in BOOLEAN :
        SettleJob(job, ok, typeset)

Spec == Init /\ [][Next]_vars

(***************************************************************************)
(* Vocabulary of the properties.                                           *)
(***************************************************************************)
\* A dialog of deck v is open: the unified overlay, or any notes overlay.
DialogShown(v) ==
  IF v = "unified" THEN unified.d.open ELSE split.n.open # {}

\* Deck v has the presenter's listeners that the page load registered and
\* no more: no slidePresenter.init() was called since.
OnePresenter(v) == Registered(DeckOf(v).listeners, "presenter") = 1

\* The slide files by the deck's naming scheme.
ExpectedFile(n) ==
  CASE n = 1  -> "slide-01.html" [] n = 2  -> "slide-02.html"
    [] n = 3  -> "slide-03.html" [] n = 4  -> "slide-04.html"
    [] n = 5  -> "slide-05.html" [] n = 6  -> "slide-06.html"
    [] n = 7  -> "slide-07.html" [] n = 8  -> "slide-08.html"
    [] n = 9  -> "slide-09.html" [] n = 10 -> "slide-10.html"
    [] n = 11 -> "slide-11.html" [] n = 12 -> "slide-12.html"
    [] n = 13 -> "slide-13.html"

\* Presenter q shows the fragments of presenter p, at the same index.
SameFragments(p, q) ==
  /\ q.currentFragmentIndex = p.currentFragmentIndex
  /\ q.visible = p.visible

\* Presenter q is presenter p with no navigation issued.
Untouched(p, q) == SameFragments(p, q) /\ q.navigation = NoNav

(***************************************************************************)
(* C1.  A call of next() while the index is below fragments.length - 1     *)
(* adds the class "visible" to exactly the fragment at index + 1, the next *)
(* one in document order, moves the index there and assigns nothing to the *)
(* location; and no call of next() assigns to the location while some      *)
(* fragment is still hidden.  So the calls from index i reveal fragments   *)
(* i+1, ..., F-1 one per call, and only the call after them may navigate.  *)
(***************************************************************************)
C1_FragmentsBeforeNavigation ==
  [][CallNext =>
      \A v \in live :
        LET p == DeckOf(v).p
            q == DeckOf(v)'.p
        IN  /\ p.currentFragmentIndex < p.fragments - 1 =>
                  /\ q.currentFragmentIndex = p.currentFragmentIndex + 1
                  /\ q.visible = p.visible \cup {p.currentFragmentIndex + 1}
                  /\ q.navigation = NoNav
            /\ (\E i \in 0..(p.fragments - 1) : i \notin p.visible) =>
                  q.navigation = NoNav]_vars

\* Both fragments of a two-fragment slide revealed from nothing, and the
\* call after them has navigated to the next slide.
C1_Witness ==
  \E v \in live :
    /\ page.numFragments = 2 /\ page.initVisible = {}
    /\ DeckOf(v).p.currentFragmentIndex = 1
    /\ DeckOf(v).p.visible = {0, 1}
    /\ DeckOf(v).p.totalSlides = 3 /\ DeckOf(v).p.currentSlide = 2
    /\ DeckOf(v).p.navigation = "slide-03.html"

(***************************************************************************)
(* C3.  A call goToSlide(n) assigns to the location if and only if         *)
(* 1 <= n <= total; what it assigns is the slide file of n, n written with *)
(* two digits; for every other n the call changes nothing.                 *)
(***************************************************************************)
C3_GoToSlideRange ==
  [][\A n \in SlideArgs :
      CallGoToSlide(n) =>
        \A v \in live :
          LET p == DeckOf(v).p
              q == DeckOf(v)'.p
          IN  IF 1 <= n /\ n <= p.totalSlides
              THEN q = [p EXCEPT !.navigation = ExpectedFile(n)]
              ELSE q = [p EXCEPT !.navigation = NoNav]]_vars

\* goToSlide(3) on slide 10 of 11: no key or click leads to slide-03.html.
C3_Witness ==
  \E v \in live :
    /\ DeckOf(v).p.totalSlides = 11 /\ DeckOf(v).p.currentSlide = 10
    /\ DeckOf(v).p.navigation = "slide-03.html"

(***************************************************************************)
(* C4.  A call of prev() with index >= 0 removes the class "visible" from  *)
(* exactly the fragment at the index, decrements the index and assigns     *)
(* nothing to the location.  With index -1 it changes no fragment and      *)
(* attempts a slide navigation: to the custom prev target when one is      *)
(* configured, otherwise by goToSlide(current - 1) when current > 1 (which *)
(* navigates when that slide is within 1..total), otherwise nothing.       *)
(***************************************************************************)
C4_PrevStep ==
  [][CallPrev =>
      \A v \in live :
        LET p == DeckOf(v).p
            q == DeckOf(v)'.p
        IN  IF p.currentFragmentIndex >= 0
            THEN /\ q.currentFragmentIndex = p.currentFragmentIndex - 1
                 /\ q.visible = p.visible \ {p.currentFragmentIndex}
                 /\ q.navigation = NoNav
            ELSE /\ SameFragments(p, q)
                 /\ q.navigation =
                      IF page.container /\ page.prevSlide \notin {Absent, ""}
                      THEN page.prevSlide
                      ELSE IF p.currentSlide > 1
                                /\ p.currentSlide - 1 <= p.totalSlides
                           THEN ExpectedFile(p.currentSlide - 1)
                           ELSE NoNav]_vars

\* Back from slide 10 of 11 with no fragment shown and no custom target.
C4_Witness ==
  \E v \in live :
    /\ page.prevSlide = Absent /\ page.numFragments = 1
    /\ DeckOf(v).p.currentFragmentIndex = -1
    /\ DeckOf(v).p.totalSlides = 11 /\ DeckOf(v).p.currentSlide = 10
    /\ DeckOf(v).p.navigation = "slide-09.html"

(***************************************************************************)
(* C5.  With every fragment revealed (index = fragments.length - 1), a     *)
(* call of next(), and a Right, Space or Enter key while no dialog is      *)
(* open, leaves the fragments alone and navigates to the custom next       *)
(* target when one is configured; otherwise to the file of slide           *)
(* current + 1 when current < total; otherwise it assigns nothing.         *)
(***************************************************************************)
C5_NextSlide ==
  [][\A v \in live :
      LET p == DeckOf(v).p
          q == DeckOf(v)'.p
      IN  (/\ p.currentFragmentIndex = p.fragments - 1
           /\ \/ CallNext
              \/ /\ ~DialogShown(v)
                 /\ (\E key \in {"ArrowRight", " ", "Enter"} : Keydown(key)))
          => /\ SameFragments(p, q)
             /\ q.navigation =
                  IF page.container /\ page.nextSlide \notin {Absent, ""}
                  THEN page.nextSlide
                  ELSE IF p.currentSlide < p.totalSlides
                       THEN ExpectedFile(p.currentSlide + 1)
                       ELSE NoNav]_vars

\* The custom next target taken on a slide that is not the last one.
C5_Witness ==
  \E v \in live :
    /\ page.nextSlide = "appendix.html"
    /\ DeckOf(v).p.currentFragmentIndex = DeckOf(v).p.fragments - 1
    /\ DeckOf(v).p.currentSlide < DeckOf(v).p.totalSlides
    /\ DeckOf(v).p.navigation = "appendix.html"

(***************************************************************************)
(* C2.  While a dialog of the deck is open, a call of next(), prev() or    *)
(* goToSlide and every keyboard shortcut (Right, Space, Enter, Left,       *)
(* Backspace, Home, End, f) leaves the fragment index and the fragments'   *)
(* visibility as they are and assigns nothing to the location; with no     *)
(* dialog open, a shortcut does what its presenter method does.            *)
(***************************************************************************)
ShortcutKeys == {"ArrowRight", " ", "Enter", "ArrowLeft", "Backspace",
                 "Home", "End", "f"}

C2_DialogSuppressesNavigation ==
  [][\A v \in live :
      LET p == Fresh(DeckOf(v)).p
          q == DeckOf(v)'.p
      IN  /\ (/\ DialogShown(v)
               /\ \/ CallNext
                  \/ CallPrev
                  \/ (\E n \in SlideArgs : CallGoToSlide(n))
                  \/ (\E key \in ShortcutKeys : Keydown(key)))
              => Untouched(p, q)
          /\ \A key \in ShortcutKeys :
                (~DialogShown(v) /\ Keydown(key)) => q = KeySwitch(page, p, key)]_vars

(***************************************************************************)
(* C6.  With the dialog open - the unified deck's overlay, and in the      *)
(* split deck the notes overlay that LectureNotesModal controls - a click  *)
(* on its close control, a click on the overlay outside the content and an *)
(* Escape key each leave it closed, with the fragment index, the           *)
(* fragments' visibility and the location as before; a click inside the    *)
(* dialog content leaves it open, and these as before.  The Escape key of  *)
(* the unified deck is the one received by the listeners of the page load: *)
(* a presenter listener added since by init() runs after the dialog's.     *)
(***************************************************************************)
C6_DismissalsDoNotAdvance ==
  [][/\ ("unified" \in live /\ unified.d.open) =>
          /\ (\/ (\E o \in Overlays : ClickOverlayOn(o, "close"))
              \/ (\E o \in Overlays : ClickOverlayOn(o, "overlay"))
              \/ (OnePresenter("unified") /\ Keydown("Escape")))
              => (~unified'.d.open /\ Untouched(unified.p, unified'.p))
          /\ (\E o \in Overlays : ClickOverlayOn(o, "content"))
              => (unified'.d.open /\ Untouched(unified.p, unified'.p))
     /\ ("split" \in live /\ NotesOverlay \in split.n.open) =>
          /\ (\/ ClickOverlayOn(NotesOverlay, "close")
              \/ ClickOverlayOn(NotesOverlay, "overlay")
              \/ Keydown("Escape"))
              => (NotesOverlay \notin split'.n.open
                  /\ Untouched(split.p, split'.p))
          /\ ClickOverlayOn(NotesOverlay, "content")
              => (NotesOverlay \in split'.n.open
                  /\ Untouched(split.p, split'.p))]_vars

\* Both decks after trigger 4 and a dismissal, overlays inside the slide:
\* the unified dialog still holds what it showed, and the split deck's
\* notes overlay, opened by a detail button, is closed again.
C6_Witness ==
  /\ live = Variants /\ page.overlayInSlide /\ page.numFragments = 1
  /\ ~unified.d.open /\ unified.d.title = "why"
  /\ split.n.open = {} /\ split.n.activeOverlay = NoOverlay
  /\ unified.p.currentFragmentIndex = -1 /\ unified.p.navigation = NoNav
  /\ split.p.currentFragmentIndex = -1 /\ split.p.navigation = NoNav

(***************************************************************************)
(* C7.  A click inside the slide on a link, a button, inside one of them   *)
(* or inside the home-button region triggers no next(); a click on any     *)
(* other part of the slide triggers exactly one next(), unless a dialog of *)
(* the deck is open: then it triggers nothing.                             *)
(***************************************************************************)
C7_SlideClick ==
  [][\A k \in SlideTargets :
      ClickSlide(k) =>
        \A v \in live :
          LET p == Fresh(DeckOf(v)).p
              q == DeckOf(v)'.p
          IN  IF k = "surface" /\ ~DialogShown(v)
              THEN q = next(page, p)
              ELSE q = p]_vars

(***************************************************************************)
(* C8.  Unified deck.  A click on an info button whose data-dialog target  *)
(* exists leaves the dialog open with the target's inner HTML as body and, *)
(* as title, the target's data-title when that is a non-empty text and the *)
(* button's own text otherwise, and does not advance the slide; a click on *)
(* an info button whose target does not exist changes neither the dialog   *)
(* nor the fragments nor the location.                                     *)
(***************************************************************************)
StoredTitle(t) == DialogTarget(InfoBtn(t).dialog).title

C8_InfoButtonOpens ==
  [][\A t \in Triggers :
      ("unified" \in live /\ ClickTrigger(t)) =>
        /\ Untouched(unified.p, unified'.p)
        /\ IF InfoBtn(t).dialog \in DialogTargets
           THEN unified'.d =
                  [open  |-> TRUE,
                   title |-> IF StoredTitle(t) \in {Absent, ""}
                             THEN InfoBtn(t).text ELSE StoredTitle(t),
                   body  |-> DialogTarget(InfoBtn(t).dialog).innerHTML]
           ELSE unified'.d = unified.d]_vars

\* C8 as stated: the title is always the target's stored title (none
\* stored: no title text).
C8_TitleFromTargetOnly ==
  [][\A t \in Triggers :
      ("unified" \in live /\ ClickTrigger(t)) =>
        /\ Untouched(unified.p, unified'.p)
        /\ IF InfoBtn(t).dialog \in DialogTargets
           THEN unified'.d =
                  [open  |-> TRUE,
                   title |-> IF StoredTitle(t) = Absent THEN ""
                             ELSE StoredTitle(t),
                   body  |-> DialogTarget(InfoBtn(t).dialog).innerHTML]
           ELSE unified'.d = unified.d]_vars

\* The dialog opened from the second info button, a <span> inside the
\* slide whose target stores no title, with the first fragment still to come.
C8_Witness ==
  /\ "unified" \in live /\ page.slide /\ page.numFragments = 1
  /\ unified.d = [open |-> TRUE, title |-> "more", body |-> "<p>two</p>"]
  /\ unified.p.currentFragmentIndex = -1 /\ unified.p.visible = {}
  /\ unified.p.navigation = NoNav

(***************************************************************************)
(* C9.  After the presenter's initialization, total and current are the    *)
(* numbers the page's data-total-slides and data-current-slide attributes  *)
(* give, and 1 each wherever the page gives none: the attribute is absent  *)
(* or no number, or there is no .slide-container at all.                   *)
(***************************************************************************)
GivesNumber(text) == text \notin {Undefined, <<"x">>}

NumberGiven(text) ==
  CASE text = <<"2">>      -> 2
    [] text = <<"3">>      -> 3
    [] text = <<"1", "0">> -> 10
    [] text = <<"1", "1">> -> 11

Claimed(text) ==
  IF page.container /\ GivesNumber(text) THEN NumberGiven(text) ELSE 1

C9_InitDefaults ==
  \A v \in live :
    /\ DeckOf(v).p.totalSlides = Claimed(page.totalSlides)
    /\ DeckOf(v).p.currentSlide = Claimed(page.currentSlide)

(***************************************************************************)
(* C10.  Side by side on the same page and the same events, the unified    *)
(* and the split deck agree on whether a dialog is open and on what, if    *)
(* anything, the latest event assigned to the location.                    *)
(***************************************************************************)
C10_VariantsAgree ==
  live = Variants =>
    /\ unified.d.open <=> (split.n.open # {})
    /\ unified.p.navigation = split.p.navigation

(***************************************************************************)
(* C11.  As stated: the typesetting open() starts is the one thing that    *)
(* settles after the step that started it; its settlement, fulfilled or    *)
(* rejected and whenever it comes, leaves the dialog open or closed as it  *)
(* was, leaves the presenter and the notes as they were and assigns        *)
(* nothing to the location; and nothing of it is an error: open() does not *)
(* throw where it starts the typesetting, and no settlement is a rejection *)
(* left unhandled.                                                         *)
(***************************************************************************)
C11_TypesetOnlyAsync ==
  [][/\ \A job \in Jobs, ok \in BOOLEAN, typeset \in BOOLEAN :
          SettleJob(job, ok, typeset) =>
            /\ job \in TypesetJobs
            /\ unified'.d.open = unified.d.open
            /\ unified'.p = Fresh(unified).p
            /\ split'.p = Fresh(split).p /\ split'.n = split.n
            /\ \A v \in live : ~DeckOf(v)'.h.unhandled
     /\ \A v \in live : ~DeckOf(v)'.h.threw]_vars

(***************************************************************************)
(* C12.  Unified deck, its keydown listeners run presenter first as the    *)
(* page load adds them.  An Escape pressed while the dialog is open leaves *)
(* the dialog closed, the fragments as they were and the location          *)
(* unassigned; an Escape pressed while no dialog is open assigns the index *)
(* page.  A call of goToIndex() assigns it, dialog open or not.  Another   *)
(* key assigns it only while no dialog is open and only as next() or       *)
(* prev() does: a Right, Space or Enter key, a slide click and a call of   *)
(* next() at the last fragment of a page whose data-next-slide is the      *)
(* index page; a Left or Backspace key and a call of prev() at index -1 of *)
(* a page whose data-prev-slide is.  No other click, call or settlement    *)
(* assigns the index page.                                                 *)
(***************************************************************************)
\* next() is at the last fragment of a page whose data-next-slide is the
\* index page; prev() is at index -1 of a page whose data-prev-slide is.
NextIsIndex ==
  /\ page.nextSlide = IndexFile
  /\ unified.p.currentFragmentIndex = unified.p.fragments - 1

PrevIsIndex ==
  /\ page.prevSlide = IndexFile
  /\ unified.p.currentFragmentIndex = -1

\* The step is one that runs neither goToIndex() nor next() nor prev().
RunsNeither ==
  \/ \E t \in Triggers : ClickTrigger(t)
  \/ \E part \in OverlayParts : ClickOverlay(part) \/ ClickLeftOverlay(part)
  \/ \E slideNum \in SlideArgs : CallGoToSlide(slideNum)
  \/ CallToggleFullscreen
  \/ \E c \in OpenArgs : CallOpen(c)
  \/ CallClose
  \/ CallInit
  \/ CallDialogInit
  \/ \E job \in Jobs, ok \in BOOLEAN, typeset \in BOOLEAN :
        SettleJob(job, ok, typeset)

C12_EscapeClosesFirst ==
  [][("unified" \in live /\ OnePresenter("unified")) =>
        /\ Keydown("Escape") =>
              IF unified.d.open
              THEN /\ ~unified'.d.open
                   /\ Untouched(unified.p, unified'.p)
              ELSE unified'.p.navigation = IndexFile
        /\ CallGoToIndex => unified'.p.navigation = IndexFile
        /\ (unified'.p.navigation = IndexFile) =>
              /\ \A key \in Keys \ {"Escape"} :
                    Keydown(key) =>
                      /\ ~unified.d.open
                      /\ \/ key \in {"ArrowRight", " ", "Enter"} /\ NextIsIndex
                         \/ key \in {"ArrowLeft", "Backspace"} /\ PrevIsIndex
              /\ (\E k \in SlideTargets : ClickSlide(k)) =>
                    (~unified.d.open /\ NextIsIndex)
              /\ CallNext => NextIsIndex
              /\ CallPrev => PrevIsIndex
              /\ ~RunsNeither]_vars

\* The two orders the keydown listeners ls can run in.
ListenerOrders(ls) == {ls, [i \in 1..Len(ls) |-> ls[Len(ls) + 1 - i]]}

\* C12 as stated: an Escape pressed while the dialog is open closes it and
\* assigns nothing to the location, whichever of the presenter's and the
\* dialog's listener runs first; and nothing but an Escape pressed while
\* no dialog is open assigns the index page.
C12_AnyListenerOrder ==
  [][("unified" \in live /\ OnePresenter("unified")) =>
        /\ (unified.d.open /\ Keydown("Escape")) =>
              \A ls \in ListenerOrders(unified.listeners) :
                LET u == KeydownInOrder(ls, page, Fresh(unified), "Escape")
                IN  ~u.d.open /\ Untouched(unified.p, u.p)
        /\ unified'.p.navigation = IndexFile =>
              (Keydown("Escape") /\ ~unified.d.open)]_vars

\* On a page whose data-next-slide is the index page the dialog was opened
\* on the first target and is closed again, and the index page has been
\* assigned.
C12_Witness ==
  /\ "unified" \in live /\ OnePresenter("unified")
  /\ page.nextSlide = IndexFile
  /\ unified.d = [open |-> FALSE, title |-> "Setup", body |-> "<p>one</p>"]
  /\ unified.p.navigation = IndexFile

(***************************************************************************)
(* C13.  Every step - a key, a click, a call, a settlement - starts and    *)
(* ends with -1 <= index <= fragments.length - 1.  A call of next() or     *)
(* prev() moves the index by +1, -1 or 0, next() assigns to the location   *)
(* only from index = fragments.length - 1 and prev() only from index = -1. *)
(* With the presenter's listeners of the page load, each of which runs one *)
(* of them at most, the same holds of every step: of a Right, Space or     *)
(* Enter key and a slide click as of next(), of a Left or Backspace key as *)
(* of prev().                                                              *)
(***************************************************************************)
InBounds(p) ==
  /\ -1 <= p.currentFragmentIndex
  /\ p.currentFragmentIndex <= p.fragments - 1

\* The step runs next(): a call, a Right, Space or Enter key, a slide click.
RunsNext ==
  \/ CallNext
  \/ (\E key \in {"ArrowRight", " ", "Enter"} : Keydown(key))
  \/ (\E k \in SlideTargets : ClickSlide(k))

\* The step runs prev(): a call, a Left or Backspace key.
RunsPrev ==
  \/ CallPrev
  \/ (\E key \in {"ArrowLeft", "Backspace"} : Keydown(key))

C13_IndexBounds ==
  [][\A v \in live :
      LET p == DeckOf(v).p
          q == DeckOf(v)'.p
      IN  /\ InBounds(p) /\ InBounds(q)
          /\ OnePresenter(v) =>
                /\ q.currentFragmentIndex - p.currentFragmentIndex
                      \in {-1, 0, 1}
                /\ (q.navigation # NoNav
                      /\ p.currentFragmentIndex # p.fragments - 1)
                    => ~RunsNext
                /\ (q.navigation # NoNav /\ p.currentFragmentIndex # -1)
                    => ~RunsPrev
          /\ ~OnePresenter(v) =>
                /\ (q.currentFragmentIndex - p.currentFragmentIndex
                      \notin {-1, 0, 1})
                    => ~(CallNext \/ CallPrev)
                /\ (q.navigation # NoNav
                      /\ p.currentFragmentIndex # p.fragments - 1)
                    => ~CallNext
                /\ (q.navigation # NoNav /\ p.currentFragmentIndex # -1)
                    => ~CallPrev]_vars

\* On a slide whose second fragment was visible in the markup, both
\* fragments were revealed and hidden again by a presenter with its one
\* set of listeners, and the step back from index -1 left for the
\* previous slide.
C13_Witness ==
  \E v \in live :
    /\ OnePresenter(v)
    /\ page.numFragments = 2 /\ page.initVisible = {1}
    /\ DeckOf(v).p.visible = {}
    /\ DeckOf(v).p.currentFragmentIndex = -1
    /\ DeckOf(v).p.navigation \notin {NoNav, IndexFile}

(***************************************************************************)
(* C14.  In every reachable state the current slide number lies between 1  *)
(* and the total slide count, whatever data-total-slides and               *)
(* data-current-slide the page carries.                                    *)
(***************************************************************************)
C14_CurrentWithinTotal ==
  \A v \in live :
    /\ 1 <= DeckOf(v).p.currentSlide
    /\ DeckOf(v).p.currentSlide <= DeckOf(v).p.totalSlides

(***************************************************************************)
(* C15.  On a page that marks no fragment visible in its markup, in every  *)
(* reachable state the fragments that carry the class "visible" are        *)
(* exactly those at positions 0..index: a fragment is visible if and only  *)
(* if its position is at most the fragment index.                          *)
(***************************************************************************)
C15_VisiblePrefix ==
  page.initVisible = {} =>
    \A v \in live :
      DeckOf(v).p.visible = 0..DeckOf(v).p.currentFragmentIndex

\* The split deck on the first of two fragments, a notes overlay open
\* over it.
C15_Witness ==
  /\ "split" \in live
  /\ page.initVisible = {} /\ page.numFragments = 2
  /\ split.p.currentFragmentIndex = 0 /\ split.p.visible = {0}
  /\ split.n.open = {"o2"}

(***************************************************************************)
(* C16.  In every reachable state: if a fragment remains to be revealed    *)
(* and the next one does not carry the class "visible" yet, next() and     *)
(* then prev() give back the index and the visibility of every fragment;   *)
(* if the index is >= 0, prev() and then next() give them back; and none   *)
(* of the four calls assigns to the location.                              *)
(***************************************************************************)
NextThenPrev(p) == prev(page, next(page, p))

PrevThenNext(p) == next(page, prev(page, p))

C16_InverseWhenHidden ==
  \A v \in live :
    LET p == Fresh(DeckOf(v)).p
    IN  /\ (/\ p.currentFragmentIndex < p.fragments - 1
             /\ (p.currentFragmentIndex + 1) \notin p.visible)
            => /\ SameFragments(p, NextThenPrev(p))
               /\ next(page, p).navigation = NoNav
               /\ NextThenPrev(p).navigation = NoNav
        /\ p.currentFragmentIndex >= 0
            => /\ SameFragments(p, PrevThenNext(p))
               /\ prev(page, p).navigation = NoNav
               /\ PrevThenNext(p).navigation = NoNav

\* C16 as stated: from any state with a fragment still to be revealed.
C16_NextPrevInverse ==
  \A v \in live :
    LET p == Fresh(DeckOf(v)).p
    IN  /\ p.currentFragmentIndex < p.fragments - 1
            => /\ SameFragments(p, NextThenPrev(p))
               /\ next(page, p).navigation = NoNav
               /\ NextThenPrev(p).navigation = NoNav
        /\ p.currentFragmentIndex >= 0
            => /\ SameFragments(p, PrevThenNext(p))
               /\ prev(page, p).navigation = NoNav
               /\ PrevThenNext(p).navigation = NoNav

\* On a slide whose second fragment was visible in the markup: the second
\* fragment was revealed and hidden again, the first is shown.
C16_Witness ==
  \E v \in live :
    /\ page.numFragments = 2 /\ page.initVisible = {1}
    /\ DeckOf(v).p.currentFragmentIndex = 0
    /\ DeckOf(v).p.visible = {0}

(***************************************************************************)
(* C17.  Unified deck.  A call of open(), close() or the dialog's init(),  *)
(* a click on an info button, a click on any part of an overlay and an     *)
(* Escape key pressed while the dialog is open and received by the         *)
(* listeners of the page load leave the presenter as it was - current      *)
(* slide, total, fragment index, fragments' visibility, counter text - and *)
(* assign nothing to the location.  A call of next(), prev(), goToSlide,   *)
(* goToIndex, toggleFullscreen or the presenter's init(), a slide click    *)
(* and every key but Escape leave the dialog as it was: open or closed,    *)
(* title and body.  Stated from the effect: a step that changes the        *)
(* presenter or assigns to the location is none of the first, one that     *)
(* changes the dialog none of the second.                                  *)
(***************************************************************************)
C17_FrameEffects ==
  []["unified" \in live =>
       /\ unified'.p # Fresh(unified).p =>
            ~(\/ (\E t \in Triggers : ClickTrigger(t))
              \/ (\E o \in Overlays, part \in OverlayParts :
                     ClickOverlayOn(o, part))
              \/ (unified.d.open /\ OnePresenter("unified")
                    /\ Keydown("Escape"))
              \/ (\E c \in OpenArgs : CallOpen(c))
              \/ CallClose
              \/ CallDialogInit
              \/ (\E part \in OverlayParts : ClickLeftOverlay(part)))
       /\ unified'.d # unified.d =>
            ~(\/ CallNext
              \/ CallPrev
              \/ (\E n \in SlideArgs : CallGoToSlide(n))
              \/ CallGoToIndex
              \/ CallToggleFullscreen
              \/ CallInit
              \/ (\E k \in SlideTargets : ClickSlide(k))
              \/ (\E key \in Keys \ {"Escape"} : Keydown(key)))]_vars

\* The dialog stays open on the fourth target while a direct call has
\* navigated to the next slide.
C17_Witness ==
  /\ "unified" \in live
  /\ unified.d = [open |-> TRUE, title |-> "why", body |-> "<p>$$x$$</p>"]
  /\ unified.p.totalSlides = 11 /\ unified.p.currentSlide = 10
  /\ unified.p.navigation = "slide-11.html"

(***************************************************************************)
(* C18.  Split deck.  In every reachable state DetailButtons.activeOverlay *)
(* is either null or an overlay that carries the class "open", and at most *)
(* one overlay carries it; and an Escape key pressed while no overlay is   *)
(* open reaches the presenter, which assigns the index page to the         *)
(* location.                                                               *)
(***************************************************************************)
C18_ActiveOverlayTracksOpen ==
  /\ []("split" \in live =>
          /\ split.n.activeOverlay # NoOverlay
                => split.n.activeOverlay \in split.n.open
          /\ Cardinality(split.n.open) <= 1)
  /\ [][("split" \in live /\ split.n.open = {} /\ Keydown("Escape"))
          => split'.p.navigation = IndexFile]_vars

====
